---- MODULE Spec2Model ----
(***************************************************************************)
(* A model of the Trivia API backend (backend/flaskr): the paginator of    *)
(* pagination.py and the request handlers of flaskr/__init__.py, run       *)
(* against a store of Question and Category rows.                          *)
(*                                                                         *)
(* One request is handled at a time (the handlers are synchronous): each   *)
(* action is one whole request, from the values it reads to the response   *)
(* it sends.  req is the request last handled and resp its response.       *)
(***************************************************************************)
EXTENDS Integers, Sequences, FiniteSets, TLC

VARIABLES
    questions,    \* the rows of the questions table, in the order Question.query.all() lists them
    categories,   \* the rows of the categories table
    nextId,       \* the id the next inserted question gets
    deleted,      \* history: the ids of the questions deleted so far
    req,          \* the request last handled
    resp,         \* its response: [status, body]
    pg            \* one call of paginate on its own: [pc, request, selection, given, size, ret]

apiVars == <<questions, categories, nextId, deleted, req, resp>>
vars == <<questions, categories, nextId, deleted, req, resp, pg>>

---------------------------------------------------------------------------
(* Constants of the program and bounds of the model *)

QUESTIONS_PER_PAGE == 10

\* the store starts with up to MaxSeed questions, ids 1, 2, ...
MaxSeed == 10
\* a DELETE names one of the ids 1..MaxDelete, an id given on insert, or an id never stored
MaxDelete == 2
\* the largest page number a request asks for
MaxPage == 2
\* previous_questions of a quiz request is a subset of 1..MaxPrev
MaxPrev == 2
\* category ids asked for in GET /categories/<id>/questions are 1..MaxCategoryId
MaxCategoryId == 3
\* paginate on its own: the longest selection, the largest page and page size
MaxLen == 4
MaxPgPage == 4
MaxSize == 3

\* questions are inserted while nextId <= MaxId
MaxId == MaxSeed + 1

\* JSON null
Null == "null"

---------------------------------------------------------------------------
(* Python built-ins the code uses *)

\* str(n) of a natural number
Digit == <<"0", "1", "2", "3", "4", "5", "6", "7", "8", "9">>

RECURSIVE str(_)
str(n) == IF n < 10 THEN Digit[n + 1] ELSE str(n \div 10) \o Digit[(n % 10) + 1]

\* the position a slice bound i denotes in a list of length n
PyIndex(i, n) ==
    IF i < 0
    THEN (IF n + i < 0 THEN 0 ELSE n + i)
    ELSE (IF i > n THEN n ELSE i)

\* s[start:end]
PySlice(s, start, end) ==
    LET lo == PyIndex(start, Len(s))
        hi == PyIndex(end, Len(s))
    IN  IF lo < hi THEN SubSeq(s, lo + 1, hi) ELSE <<>>

\* a Python value with its type: len() is defined on a list and not on a bool
PyList(s) == [type |-> "list", val |-> s]
PyBool(b) == [type |-> "bool", val |-> b]

\* len(v): a number, or a TypeError
PyLen(v) ==
    IF v.type = "list"
    THEN [raised |-> FALSE, val |-> Len(v.val)]
    ELSE [raised |-> TRUE, val |-> 0]

\* random.randint(a, b): the values it may return; none (a ValueError) when b < a
randint(a, b) == a..b

---------------------------------------------------------------------------
(* pagination.py *)

\* request.args.get("page", 1, type=int)
PageOf(request) ==
    IF "page" \in DOMAIN request.args THEN request.args.page ELSE 1

\* a paginator that takes the page number for a 0-based one
paginate_zero_based(request, selection, PER_PAGE) ==
    LET page == PageOf(request)
        start == page * PER_PAGE
        end == start + PER_PAGE
        qs == [i \in 1..Len(selection) |-> selection[i]]
    IN  PySlice(qs, start, end)

paginate(request, selection, PER_PAGE) ==
    LET page == PageOf(request)
        start == (page - 1) * PER_PAGE
        end == start + PER_PAGE
        qs == [i \in 1..Len(selection) |-> selection[i]]
    IN  PySlice(qs, start, end)

---------------------------------------------------------------------------
(* The Question and Category models (models.py): rows, format(), insert(),
   delete(), and the queries the handlers make *)

\* Question.format() / Category.format(): the row as a dict
format(q) ==
    [id |-> q.id, question |-> q.question, answer |-> q.answer,
     category |-> q.category, difficulty |-> q.difficulty]

format_category(c) == [id |-> c.id, type |-> c.type]

FormatAll(rows) == [i \in 1..Len(rows) |-> format(rows[i])]

FormatCategories(rows) == [i \in 1..Len(rows) |-> format_category(rows[i])]

\* question.insert(): the row is added with a generated id
InsertRow(rows, q, id) ==
    Append(rows, [id |-> id, question |-> q.question, answer |-> q.answer,
                  category |-> q.category, difficulty |-> q.difficulty])

\* question.delete(): the row of that id is removed
DeleteRow(rows, q) == SelectSeq(rows, LAMBDA r : r.id # q.id)

\* s, sorted by key, with x put after its last element whose key is not above x's
RECURSIVE InsertSorted(_, _, _)
InsertSorted(s, x, key) ==
    IF s = <<>> THEN <<x>>
    ELSE IF key[s[Len(s)]] > key[x]
         THEN Append(InsertSorted(SubSeq(s, 1, Len(s) - 1), x, key), s[Len(s)])
         ELSE Append(s, x)

\* s in ascending order of key, rows of equal key in the order they had
RECURSIVE SortBy(_, _)
SortBy(s, key) ==
    IF s = <<>> THEN <<>>
    ELSE InsertSorted(SortBy(SubSeq(s, 1, Len(s) - 1), key), s[Len(s)], key)

\* the rows of a list, as a set
RowsOf(rows) == {rows[i] : i \in 1..Len(rows)}

\* the ids of the rows of a list
IdsOf(rows) == {rows[i].id : i \in 1..Len(rows)}

\* .order_by(Question.difficulty)
OrderByDifficulty(rows) == SortBy(rows, [r \in RowsOf(rows) |-> r.difficulty])

\* the category types there are, in alphabetical order
CategoryTypes == <<"Art", "Science">>

TypeRank(t) == CHOOSE i \in 1..Len(CategoryTypes) : CategoryTypes[i] = t

\* .order_by(Category.type)
OrderByType(rows) == SortBy(rows, [r \in RowsOf(rows) |-> TypeRank(r.type)])

\* Question.query.filter(Question.id == question_id)
QuestionsWithId(question_id) == SelectSeq(questions, LAMBDA q : q.id = question_id)

\* lower(): the letters the model's texts hold, in lower case
Lower(text) == [i \in 1..Len(text) |-> IF text[i] = "Q" THEN "q" ELSE text[i]]

\* text ILIKE %term%: term is in text, whatever the case of the letters
ilike(text, term) ==
    \E i \in 1..(Len(text) + 1) :
        /\ i + Len(term) - 1 <= Len(text)
        /\ SubSeq(Lower(text), i, i + Len(term) - 1) = Lower(term)

\* Question.query.filter(Question.question.ilike(f"%{search_term}%"))
QuestionsLike(search_term) == SelectSeq(questions, LAMBDA q : ilike(q.question, search_term))

\* Question.query.filter(Question.category == category)
QuestionsOfCategory(category) == SelectSeq(questions, LAMBDA q : q.category = category)

---------------------------------------------------------------------------
(* The store the service starts with *)

SeedQuestion(i) ==
    [id |-> i, question |-> <<"Q">>, answer |-> "A",
     category |-> str(1 + (i % 2)), difficulty |-> 1 + (i % 3)]

SeedQuestions(n) == [i \in 1..n |-> SeedQuestion(i)]

SeedCategories == <<[id |-> 1, type |-> "Science"], [id |-> 2, type |-> "Art"]>>

---------------------------------------------------------------------------
(* The error handlers *)

Response(status, body) == [status |-> status, body |-> body]

\* jsonify(...) of a handler that returns: status 200
Ok(body) == Response(200, body)

not_found ==
    Response(404, [success |-> FALSE, error |-> 404, message |-> "Resource not found"])

not_allowed ==
    Response(405, [success |-> FALSE, error |-> 405, message |-> "method not allowed"])

unprocessable ==
    Response(422, [sucess |-> FALSE, error |-> 422, message |-> "Unprocessable entity"])

---------------------------------------------------------------------------
(* The requests the model sends *)

\* the query string: no page, or page=p (p is not validated: it may be 0 or negative)
NoArgs == <<>>

QueryArgs == {NoArgs} \cup {[page |-> p] : p \in (0 - 1)..MaxPage}

\* ids a DELETE may name
QuestionIds == (1..MaxDelete) \cup ((MaxSeed + 1)..(MaxId + 1))

\* bodies of POST /questions/create
CreateBodies ==
    {[question |-> <<"Q", "1">>, answer |-> "A1", category |-> "1", difficulty |-> 3],
     [question |-> <<"Q", "2">>, answer |-> "A2", category |-> "2", difficulty |-> 1]}

\* bodies of POST /question/search: a searchTerm, or none
SearchBodies == {NoArgs} \cup {[searchTerm |-> t] : t \in {<<>>, <<"q">>, <<"2">>, <<"x">>}}

\* bodies of POST /quizzes: previous_questions and quiz_category, each given or not
PrevSets == SUBSET (1..MaxPrev)

QuizCategories == {"1", "2", "7"}

QuizBodies ==
    {[previous_questions |-> p, quiz_category |-> c] : p \in PrevSets, c \in QuizCategories}
    \cup {[previous_questions |-> p] : p \in PrevSets}
    \cup {[quiz_category |-> c] : c \in QuizCategories}

---------------------------------------------------------------------------
(* GET /categories *)

get_categories ==
    LET cats == OrderByType(categories)
        categories_list == FormatCategories(cats)
    IN  /\ req' = [op |-> "get_categories"]
        /\ resp' = IF Len(categories_list) # 0
                   THEN Ok([success |-> TRUE, categories |-> categories_list])
                   ELSE not_found
        /\ UNCHANGED <<questions, categories, nextId, deleted, pg>>

(* GET /questions *)

\* a handler that takes an empty page for an empty store
get_questions_response_empty_page(request) ==
    LET qs == questions
        questions_list == FormatAll(qs)
        paginated_questions == paginate(request, questions_list, QUESTIONS_PER_PAGE)
        formatted_categories == FormatCategories(OrderByType(categories))
    IN  IF Len(paginated_questions) # 0
        THEN Ok([success |-> TRUE,
                 questions |-> paginated_questions,
                 total_questions |-> Len(questions_list),
                 category |-> formatted_categories,
                 current_category |-> Null])
        ELSE not_found

get_questions_response(request) ==
    LET qs == questions
        questions_list == FormatAll(qs)
        paginated_questions == paginate(request, questions_list, QUESTIONS_PER_PAGE)
        cats == OrderByType(categories)
        formatted_categories == FormatCategories(cats)
    IN  IF Len(qs) # 0
        THEN Ok([success |-> TRUE,
                 questions |-> paginated_questions,
                 total_questions |-> Len(questions_list),
                 category |-> formatted_categories,
                 current_category |-> Null])
        ELSE not_found

get_questions ==
    \E args \in QueryArgs :
        LET request == [op |-> "get_questions", args |-> args]
        IN  /\ req' = request
            /\ resp' = get_questions_response(request)
            /\ UNCHANGED <<questions, categories, nextId, deleted, pg>>

(* DELETE /questions/<int:question_id> *)

\* a response that counts the questions before the deletion
delete_question_response_stale(request, questions_list) ==
    LET paginated_questions == paginate(request, questions_list, QUESTIONS_PER_PAGE)
    IN  Ok([success |-> TRUE,
            questions |-> FormatAll(paginated_questions),
            total_questions |-> Len(questions),
            categories |-> FormatCategories(OrderByType(categories)),
            current_category |-> Null])

\* the response of a deletion that found its question, from the rows left
delete_question_response(request, questions_list) ==
    LET categories_list == OrderByType(categories)
        paginated_questions == paginate(request, questions_list, QUESTIONS_PER_PAGE)
        cats == FormatCategories(categories_list)
    IN  Ok([success |-> TRUE,
            questions |-> FormatAll(paginated_questions),
            total_questions |-> Len(questions_list),
            categories |-> cats,
            current_category |-> Null])

\* a handler that does not check that the question was found
delete_question_unchecked ==
    \E question_id \in QuestionIds, args \in QueryArgs :
        LET request == [op |-> "delete_question", question_id |-> question_id, args |-> args]
            found == QuestionsWithId(question_id)
        IN  /\ req' = request
            /\ questions' = SelectSeq(questions, LAMBDA q : q.id # question_id)
            /\ deleted' = deleted \cup IdsOf(found)
            /\ resp' = delete_question_response(request, questions')
            /\ UNCHANGED <<categories, nextId, pg>>

delete_question ==
    \E question_id \in QuestionIds, args \in QueryArgs :
        LET request == [op |-> "delete_question", question_id |-> question_id, args |-> args]
            found == QuestionsWithId(question_id)
        IN  /\ req' = request
            /\ Len(found) <= 1          \* one_or_none(): ids are the primary key
            /\ IF Len(found) = 0
               THEN /\ resp' = unprocessable
                    /\ UNCHANGED <<questions, deleted>>
               ELSE /\ questions' = DeleteRow(questions, found[1])
                    /\ deleted' = deleted \cup {found[1].id}
                    /\ resp' = delete_question_response(request, questions')
            /\ UNCHANGED <<categories, nextId, pg>>

(* POST /questions/create *)

\* a response that reports the id the next question will get
add_question_response_next(id) == Ok([success |-> TRUE, created |-> id + 1])

\* the response of a creation that inserted its question
add_question_response(id) == Ok([success |-> TRUE, created |-> id])

add_question ==
    /\ nextId <= MaxId
    /\ \/ \E json \in CreateBodies :
            /\ req' = [op |-> "add_question", json |-> json]
            /\ questions' = InsertRow(questions, json, nextId)
            /\ nextId' = nextId + 1
            /\ resp' = add_question_response(questions'[Len(questions')].id)
       \/ \* no JSON body: request.json.get raises, and the except clause aborts
          /\ req' = [op |-> "add_question"]
          /\ resp' = unprocessable
          /\ UNCHANGED <<questions, nextId>>
    /\ UNCHANGED <<categories, deleted, pg>>

(* POST /question/search *)

search_question ==
    \E body \in SearchBodies :
        /\ req' = [op |-> "search_question", body |-> body]
        /\ resp' = IF "searchTerm" \notin DOMAIN body
                   THEN not_found
                   ELSE LET search_term == body.searchTerm
                            matching_questions == OrderByDifficulty(QuestionsLike(search_term))
                            cats == OrderByType(categories)
                            qs == FormatAll(matching_questions)
                            categories_list == FormatCategories(cats)
                        IN  Ok([success |-> TRUE,
                                questions |-> qs,
                                total_questions |-> Len(questions),
                                categories |-> categories_list,
                                current_category |-> Null])
        /\ UNCHANGED <<questions, categories, nextId, deleted, pg>>

(* GET /categories/<int:category_id>/questions *)

get_questions_by_category ==
    \E category_id \in 1..MaxCategoryId, args \in QueryArgs :
        LET request == [op |-> "get_questions_by_category",
                        category_id |-> category_id, args |-> args]
            category == str(category_id)
            qs == OrderByDifficulty(QuestionsOfCategory(category))
            paginated_questions == paginate(request, qs, QUESTIONS_PER_PAGE)
            questions_list == FormatAll(paginated_questions)
            formatted_categories == FormatCategories(OrderByType(categories))
            all_questions == questions
        IN  /\ req' = request
            /\ resp' = IF Len(qs) # 0
                       THEN Ok([success |-> TRUE,
                                questions |-> questions_list,
                                total_questions |-> Len(all_questions),
                                categories |-> formatted_categories,
                                current_category |-> Null])
                       ELSE not_found
            /\ UNCHANGED <<questions, categories, nextId, deleted, pg>>

(* POST /quizzes *)

\* a 200 response carrying the question drawn
quiz_response(question) == Ok([success |-> TRUE, question |-> <<question>>])

\* the questions of the list, none left out
available_questions_unfiltered(questions_list, previous_questions) == PyList(questions_list)

\* `questions_list not in previous_questions`: whether the list as a whole is no
\* element of previous_questions, a bool; no list of dicts equals a question id
available_questions(questions_list, previous_questions) == PyBool(TRUE)

\* a quiz that draws among the questions not asked yet, of whatever category
quiz_outcomes_any_category(body) ==
    IF "previous_questions" \notin DOMAIN body
    THEN {unprocessable}
    ELSE LET pool == SelectSeq(FormatAll(questions),
                               LAMBDA q : q.id \notin body.previous_questions)
         IN  IF pool = <<>>
             THEN {unprocessable}
             ELSE {quiz_response(pool[index + 1]) : index \in randint(0, Len(pool) - 1)}

\* the responses play_quiz may give to a body (one for each value randint may draw)
quiz_outcomes(body) ==
    LET hasPrevious == "previous_questions" \in DOMAIN body
        hasCategory == "quiz_category" \in DOMAIN body
    IN  IF ~hasCategory /\ ~hasPrevious
        THEN {unprocessable}                 \* len(None) raises
        ELSE IF ~hasCategory /\ Cardinality(body.previous_questions) = 0
        THEN LET qs == OrderByDifficulty(questions)
                 questions_list == FormatAll(qs)
                 indexes == randint(0, Len(questions_list) - 1)
             IN  IF indexes = {}
                 THEN {unprocessable}        \* randint(0, -1) raises
                 ELSE {quiz_response(questions_list[index + 1]) : index \in indexes}
        ELSE IF ~hasPrevious
        THEN {unprocessable}                 \* `not in None` raises
        ELSE LET qs == IF hasCategory
                       THEN QuestionsOfCategory(body.quiz_category)
                       ELSE <<>>             \* category == None matches no row
                 questions_list == FormatAll(qs)
                 available == available_questions(questions_list, body.previous_questions)
                 n == PyLen(available)
                 indexes == randint(0, n.val - 1)
             IN  IF n.raised \/ indexes = {}
                 THEN {unprocessable}        \* len(bool) raises
                 ELSE {quiz_response(available.val[index + 1]) : index \in indexes}

play_quiz ==
    \E body \in QuizBodies :
        /\ req' = [op |-> "play_quiz", body |-> body]
        /\ resp' \in quiz_outcomes(body)
        /\ UNCHANGED <<questions, categories, nextId, deleted, pg>>

---------------------------------------------------------------------------
(* Routing: the URL rules of the app, and the requests no rule serves *)

Rules ==
    [rule \in {"/categories", "/questions", "/questions/<int:question_id>",
               "/questions/create", "/question/search",
               "/categories/<int:category_id>/questions", "/quizzes"} |->
        CASE rule = "/questions/<int:question_id>" -> {"DELETE"}
          [] rule \in {"/questions/create", "/question/search", "/quizzes"} -> {"POST"}
          [] OTHER -> {"GET"}]

Methods == {"GET", "POST", "DELETE", "PATCH"}

Urls == DOMAIN Rules \cup {"/categories/<int>"}

\* a URL that matches no rule: 404
route_not_found ==
    \E method \in Methods, url \in Urls :
        /\ url \notin DOMAIN Rules
        /\ req' = [op |-> "no_route", method |-> method, url |-> url]
        /\ resp' = not_found
        /\ UNCHANGED <<questions, categories, nextId, deleted, pg>>

\* a URL that matches a rule, with a method the rule does not allow: 405
method_not_allowed ==
    \E method \in Methods, url \in Urls :
        /\ url \in DOMAIN Rules
        /\ method \notin Rules[url]
        /\ req' = [op |-> "no_method", method |-> method, url |-> url]
        /\ resp' = not_allowed
        /\ UNCHANGED <<questions, categories, nextId, deleted, pg>>

---------------------------------------------------------------------------
(* The service *)

NoCall == [pc |-> "idle"]

Init ==
    /\ \E n \in 0..MaxSeed : questions = SeedQuestions(n)
    /\ categories \in {<<>>, SeedCategories}
    /\ nextId = MaxSeed + 1
    /\ deleted = {}
    /\ req = [op |-> "none"]
    /\ resp = Ok([success |-> TRUE])
    /\ pg = NoCall

Next ==
    \/ get_categories
    \/ get_questions
    \/ delete_question
    \/ add_question
    \/ search_question
    \/ get_questions_by_category
    \/ play_quiz
    \/ route_not_found
    \/ method_not_allowed

Spec == Init /\ [][Next]_vars

---------------------------------------------------------------------------
(* paginate on its own: one call, on every selection, page and page size *)

Items == {"a", "b", "c"}

Selections == UNION {[1..n -> Items] : n \in 0..MaxLen}

PaginateCalls ==
    {[pc |-> "call", request |-> [args |-> a], selection |-> sel, given |-> sel,
      size |-> size, ret |-> <<>>] :
        a \in {NoArgs} \cup {[page |-> p] : p \in (0 - 1)..MaxPgPage},
        sel \in Selections,
        size \in 1..MaxSize}

InitPaginate ==
    /\ questions = <<>>
    /\ categories = <<>>
    /\ nextId = 1
    /\ deleted = {}
    /\ req = [op |-> "none"]
    /\ resp = Ok([success |-> TRUE])
    /\ pg \in PaginateCalls

\* the call returns; the caller's list is not assigned to
paginate_call ==
    /\ pg.pc = "call"
    /\ pg' = [pg EXCEPT !.pc = "done",
                        !.ret = paginate(pg.request, pg.selection, pg.size)]
    /\ UNCHANGED apiVars

NextPaginate == paginate_call

SpecPaginate == InitPaginate /\ [][NextPaginate]_vars

---------------------------------------------------------------------------
(* Properties *)

CeilDiv(a, b) == (a + b - 1) \div b

\* the questions a response carries
ResponseQuestions(r) ==
    IF "questions" \in DOMAIN r.body THEN RowsOf(r.body.questions)
    ELSE IF "question" \in DOMAIN r.body THEN RowsOf(r.body.question)
    ELSE {}

\* the last request was a quiz request that gave previous_questions
QuizHandled == req.op = "play_quiz" /\ "previous_questions" \in DOMAIN req.body

\* the candidate pool of a quiz body: the questions of its category, or all of them
CandidatePool(body) ==
    IF "quiz_category" \in DOMAIN body
    THEN {q \in RowsOf(questions) : q.category = body.quiz_category}
    ELSE RowsOf(questions)

\* the eligible pool: the candidates not asked yet
EligiblePool(body) == {q \in CandidatePool(body) : q.id \notin body.previous_questions}

\* the questions inserted by a create request that are still stored
CreatedStored == {i \in 1..Len(questions) : questions[i].id > MaxSeed}

(* C1: for a positive page p and a positive page size, paginate returns exactly
   the elements of items at the positions [(p-1)*size, (p-1)*size + size), in
   their order, the empty sequence when p > ceil(len(items)/size), and it
   leaves items as it was. *)
C1_PaginateReturnsThePage ==
    (pg.pc = "done" /\ PageOf(pg.request) >= 1) =>
        LET p == PageOf(pg.request)
            items == pg.given
            start == (p - 1) * pg.size
            inRange == {i \in 1..Len(items) : start < i /\ i <= start + pg.size}
        IN  /\ Len(pg.ret) = Cardinality(inRange)
            /\ \A k \in 1..Len(pg.ret) : pg.ret[k] = items[start + k]
            /\ (p > CeilDiv(Len(items), pg.size) => pg.ret = <<>>)
            /\ pg.selection = items

\* a call for page 2 returned a last page that is not full
C1_Witness ==
    /\ pg.pc = "done"
    /\ PageOf(pg.request) = 2
    /\ pg.ret # <<>>
    /\ Len(pg.ret) < pg.size

(* C2: a quiz request never returns a question whose id is in
   previous_questions. *)
C2_QuizNeverRepeats ==
    (QuizHandled /\ resp.status = 200) =>
        \A q \in ResponseQuestions(resp) : q.id \notin req.body.previous_questions

\* a quiz request was handled whose previous_questions name a question of its
\* candidate pool
C2_Witness ==
    /\ QuizHandled
    /\ \E q \in CandidatePool(req.body) : q.id \in req.body.previous_questions

(* C3: when previous_questions covers the whole candidate pool of a quiz
   request, so that no question is eligible, the request is answered with a
   non-error "no question available", not with 422. *)
C3_EmptyPoolIsNoError ==
    (QuizHandled /\ CandidatePool(req.body) # {} /\ EligiblePool(req.body) = {}) =>
        resp.status # 422

(* C4: when the candidate pool of a quiz request holds a question that is not
   in previous_questions, the request succeeds and returns one question of the
   eligible pool. *)
C4_EligibleQuestionIsServed ==
    (QuizHandled /\ EligiblePool(req.body) # {}) =>
        /\ resp.status = 200
        /\ ResponseQuestions(resp) # {}
        /\ ResponseQuestions(resp) \subseteq {format(q) : q \in EligiblePool(req.body)}

(* C5: a quiz request over category C only returns questions whose category
   is C. *)
C5_QuizStaysInCategory ==
    (req.op = "play_quiz" /\ "quiz_category" \in DOMAIN req.body /\ resp.status = 200) =>
        \A q \in ResponseQuestions(resp) : q.category = req.body.quiz_category

\* a quiz request over a category was handled while the store held a question
\* of another category
C5_Witness ==
    /\ req.op = "play_quiz"
    /\ "quiz_category" \in DOMAIN req.body
    /\ \E q \in RowsOf(questions) : q.category # req.body.quiz_category

(* C6: every 404, 405 or 422 response has a body with success = false, error
   = the status code and a message: "Resource not found" for 404, "Method not
   allowed" for 405. *)
C6_ErrorBodyShape ==
    resp.status \in {404, 405, 422} =>
        /\ {"success", "error", "message"} \subseteq DOMAIN resp.body
        /\ resp.body.success = FALSE
        /\ resp.body.error = resp.status
        /\ (resp.status = 404 => resp.body.message = "Resource not found")
        /\ (resp.status = 405 => resp.body.message = "Method not allowed")

(* C7: a DELETE of an id that matches no stored question is answered 422 and
   leaves the questions and the categories as they were. *)
C7_DeleteMissingChangesNothing ==
    [][(req'.op = "delete_question" /\ req'.question_id \notin IdsOf(questions)) =>
          /\ resp'.status = 422
          /\ questions' = questions
          /\ categories' = categories]_vars

\* a DELETE of an id that is not stored was handled, the store holding questions
C7_Witness ==
    /\ req.op = "delete_question"
    /\ req.question_id \notin IdsOf(questions) \cup deleted
    /\ resp.status = 422
    /\ questions # <<>>

(* C8, as stated: a create request succeeds with `created` a positive id no
   other stored question has, and while the question is stored the response of
   a later GET /questions (default page) includes it and counts it in
   total_questions. *)
C8_CreatedIsListed ==
    /\ (req.op = "add_question" /\ "json" \in DOMAIN req) =>
          /\ resp.status = 200
          /\ resp.body.created > 0
          /\ Cardinality({i \in 1..Len(questions) : questions[i].id = resp.body.created}) = 1
    /\ (req.op = "get_questions" /\ req.args = NoArgs) =>
          \A i \in CreatedStored :
              /\ resp.status = 200
              /\ format(questions[i]) \in ResponseQuestions(resp)
              /\ resp.body.total_questions = Len(questions)

(* C8, amended: a create request succeeds with `created` a positive id no
   other stored question has, and while the question is stored a later GET
   /questions counts it in total_questions and, for a page number >= 1
   (default 1), includes it exactly when its position i in the listing is on
   the page asked for: (page-1)*10 < i <= page*10. *)
C8_CreatedIsListedOnItsPage ==
    /\ (req.op = "add_question" /\ "json" \in DOMAIN req) =>
          /\ resp.status = 200
          /\ resp.body.created > 0
          /\ Cardinality({i \in 1..Len(questions) : questions[i].id = resp.body.created}) = 1
          /\ \E i \in CreatedStored :
                /\ questions[i].id = resp.body.created
                /\ questions[i].question = req.json.question
                /\ questions[i].category = req.json.category
    /\ req.op = "get_questions" =>
          \A i \in CreatedStored :
              LET page == PageOf(req)
              IN  /\ resp.status = 200
                  /\ resp.body.total_questions = Len(questions)
                  /\ page >= 1 =>
                        (format(questions[i]) \in ResponseQuestions(resp)
                            <=> ((page - 1) * QUESTIONS_PER_PAGE < i
                                 /\ i <= page * QUESTIONS_PER_PAGE))

\* a GET /questions was answered with a page that holds a created question
C8_Witness ==
    /\ req.op = "get_questions"
    /\ resp.status = 200
    /\ \E i \in CreatedStored : format(questions[i]) \in ResponseQuestions(resp)

(* C9: GET /questions is answered 404 "Resource not found" exactly when no
   question is stored; otherwise 200 with success true, total_questions the
   number of stored questions and, for page 1, a list of 1 to 10 questions. *)
C9_GetQuestions ==
    req.op = "get_questions" =>
        /\ resp.status = 404 <=> Len(questions) = 0
        /\ resp.status = 404 =>
              resp.body.message = "Resource not found" /\ resp.body.success = FALSE
        /\ Len(questions) # 0 =>
              /\ resp.status = 200
              /\ resp.body.success = TRUE
              /\ resp.body.total_questions = Len(questions)
              /\ PageOf(req) = 1 =>
                    /\ Len(resp.body.questions) >= 1
                    /\ Len(resp.body.questions) <= 10

\* GET /questions, page 1, was answered from a store of more than 10 questions
C9_Witness ==
    /\ req.op = "get_questions"
    /\ PageOf(req) = 1
    /\ Len(questions) > QUESTIONS_PER_PAGE
    /\ Len(resp.body.questions) = QUESTIONS_PER_PAGE

(* C10: a DELETE of the id of a stored question succeeds, removes that
   question and no other, leaves the categories as they were and reports the
   number of questions left as total_questions; and no later response carries
   a deleted question. *)
C10_DeleteRemovesOne ==
    /\ [][(req'.op = "delete_question" /\ req'.question_id \in IdsOf(questions)) =>
            /\ resp'.status = 200
            /\ resp'.body.success = TRUE
            /\ questions' = SelectSeq(questions, LAMBDA q : q.id # req'.question_id)
            /\ Len(questions') = Len(questions) - 1
            /\ categories' = categories
            /\ resp'.body.total_questions = Len(questions')]_vars
    /\ [](\A q \in ResponseQuestions(resp) : q.id \notin deleted)

\* a DELETE removed a question from a store that keeps others
C10_Witness ==
    /\ req.op = "delete_question"
    /\ resp.status = 200
    /\ req.question_id \in deleted
    /\ questions # <<>>

====
